---- MODULE Spec2Model ----
(***************************************************************************)
(* State-machine model of aws/agent_core/agentcore_langgraph_agent.py:     *)
(* module start-up (required settings, optional tracer, graph build) and   *)
(* the invoke entry point driving the compiled LangGraph loop              *)
(* assistant -> tools_condition -> tools -> assistant.                      *)
(*                                                                         *)
(* Strings built by concatenation are modelled as sequences of pieces:     *)
(* <<a, b>> stands for the text a followed by the text b.                  *)
(***************************************************************************)
EXTENDS Integers, Sequences, FiniteSets, TLC

(* ------------------------------ bounds --------------------------------- *)

\* Number of leading assistant turns (and their tool turns) in which the
\* model and the rate service answer with every modelled response; later
\* turns answer with the canonical responses only.
MaxVaried == 1

\* Number of assistant turns of an invocation in which the model may still
\* request tools, when two invocations are served concurrently.
MaxConcRounds == 1

(* ------------------------- program constants --------------------------- *)

\* compiled_graph.invoke is called without a recursion_limit, so the graph
\* runs under LangGraph's default limit of 25 super-steps.
RecursionLimit == 25

\* A message that carries no id yet (id=None).
NoId == 0

None == "<None>"

SYSTEM_PROMPT == "You help users understand currency exchange rates and related context."

DefaultGreeting == "Hello! How can I help you today?"

ErrorPrefix == "Error while processing request: "

RequiredKeys == <<"AWS_REGION", "BEDROCK_MODEL_ID", "AGENT_NAME", "AGENT_ID", "PROVIDER_NAME">>

ConnKey == "APPLICATION_INSIGHTS_CONNECTION_STRING"

EnvKeys == {RequiredKeys[i] : i \in 1..Len(RequiredKeys)} \cup {ConnKey}

\* os.getenv yields None for an unset variable; a variable may be set empty.
EnvValues == {None, "", "set"}

RegisteredTools == {"get_exchange_rate"}

(* ----------------------------- inputs ---------------------------------- *)

\* A prompt value that is not text (e.g. the JSON number 123).
NonTextPrompt == "<int 123>"

Prompts == {"", "Hello", "What is the USD to EUR rate today?", NonTextPrompt}

Payloads == {[session |-> "s1"]} \cup {[session |-> "s1", prompt |-> p] : p \in Prompts}

\* What one request to the rate service can do.
RateOutcomes == {"ok", "network", "http_status", "malformed"}

\* No exception.
NoExc == [type |-> "", msg |-> <<>>]

ModelFailures == {[type |-> "ReadTimeoutError", msg |-> <<"Read timeout on endpoint URL">>],
                  [type |-> "ClientError", msg |-> <<"An error occurred (ThrottlingException)">>]}

ToolCallShapes == {<<"get_exchange_rate">>, <<"convert_currency">>,
                   <<"get_exchange_rate", "convert_currency">>}

VariedResponses ==
    {[kind |-> "fail", exc |-> e, content |-> "", calls |-> <<>>] : e \in ModelFailures}
    \cup {[kind |-> "msg", exc |-> NoExc, content |-> c, calls |-> <<>>] :
             c \in {"The rate is 0.92", "Sorry, I could not look that up."}}
    \cup {[kind |-> "msg", exc |-> NoExc, content |-> "", calls |-> s] : s \in ToolCallShapes}

CanonicalResponses ==
    {[kind |-> "fail", exc |-> [type |-> "ReadTimeoutError", msg |-> <<"Read timeout on endpoint URL">>],
      content |-> "", calls |-> <<>>],
     [kind |-> "msg", exc |-> NoExc, content |-> "The rate is 0.92", calls |-> <<>>],
     [kind |-> "msg", exc |-> NoExc, content |-> "", calls |-> <<"get_exchange_rate">>]}

(* --------------------------- pure functions ---------------------------- *)

Last(s) == s[Len(s)]

\* Variant of PayloadGet that also falls back on a falsy value
\* (payload.get(key) or default).
PayloadGet_or_default(payload, key, default) ==
    IF key \in DOMAIN payload /\ payload[key] # "" THEN payload[key] ELSE default

\* dict.get(key, default)
PayloadGet(payload, key, default) ==
    IF key \in DOMAIN payload THEN payload[key] ELSE default

\* os.getenv(key)
getenv(e, key) == e[key]

\* Python truthiness of an optional string: None and "" are falsy.
Truthy(v) == v # None /\ v # ""

\* _require_env(key): the value, or RuntimeError naming the key.
require_env(e, key) ==
    LET value == getenv(e, key)
    IN  IF ~Truthy(value)
        THEN [raised |-> TRUE, value |-> None,
              exc |-> [type |-> "RuntimeError",
                       msg |-> <<"Missing required environment variable '", key,
                                 "'. Populate aws/agent_core/.env first.">>]]
        ELSE [raised |-> FALSE, value |-> value, exc |-> NoExc]

\* Variant of FirstMissing that requires the first two settings only.
FirstMissing_two(e) ==
    LET bad == {i \in 1..2 : require_env(e, RequiredKeys[i]).raised}
    IN  IF bad = {} THEN 0 ELSE CHOOSE i \in bad : \A j \in bad : i <= j

\* The module-level assignments AWS_REGION .. PROVIDER_NAME, in source order:
\* the index in RequiredKeys of the first setting whose _require_env raises,
\* or 0 when all five are present.
FirstMissing(e) ==
    LET bad == {i \in 1..Len(RequiredKeys) : require_env(e, RequiredKeys[i]).raised}
    IN  IF bad = {} THEN 0 ELSE CHOOSE i \in bad : \A j \in bad : i <= j

\* _format_messages(user_message)
format_messages(user_message) ==
    << [role |-> "system", content |-> SYSTEM_PROMPT, tool_calls |-> <<>>,
        tool_call_id |-> NoId, status |-> "", id |-> NoId],
       [role |-> "user", content |-> user_message, tool_calls |-> <<>>,
        tool_call_id |-> NoId, status |-> "", id |-> NoId] >>

\* The message reducer coerces role/content mappings to message objects; a
\* content that is neither text nor a list of blocks fails validation.
Convertible(ms) == \A i \in 1..Len(ms) : ms[i].content # NonTextPrompt

ValidationError == [type |-> "ValidationError", msg |-> <<"Input should be a valid string">>]

GraphRecursionError ==
    [type |-> "GraphRecursionError",
     msg |-> <<"Recursion limit of 25 reached without hitting a stop condition.">>]

RECURSIVE Merge(_, _)
Merge(left, right) ==
    IF right = <<>> THEN left
    ELSE LET m == Head(right)
             hit == {i \in 1..Len(left) : left[i].id = m.id}
         IN  Merge(IF hit # {}
                   THEN [left EXCEPT ![CHOOSE i \in hit : TRUE] = m]
                   ELSE Append(left, m),
                   Tail(right))

\* Variant of add_messages that puts the update in front of the stored list.
add_messages_prepend(left, right, idc) ==
    [i \in 1..Len(right) |->
        IF right[i].id = NoId THEN [right[i] EXCEPT !.id = idc + i] ELSE right[i]] \o left

\* Variant of add_messages for a state key without a reducer: the update
\* overwrites the stored list.
add_messages_overwrite(left, right, idc) ==
    [i \in 1..Len(right) |->
        IF right[i].id = NoId THEN [right[i] EXCEPT !.id = idc + i] ELSE right[i]]

\* add_messages(left, right): right's messages without an id get a fresh one
\* (ids following idc); a message whose id is already in left replaces it in
\* place, any other is appended.
add_messages(left, right, idc) ==
    Merge(left, [i \in 1..Len(right) |->
                    IF right[i].id = NoId THEN [right[i] EXCEPT !.id = idc + i]
                    ELSE right[i]])

\* Variant of tools_condition with the two routes swapped.
tools_condition_inverted(messages) ==
    IF Len(Last(messages).tool_calls) > 0 THEN "__end__" ELSE "tools"

\* tools_condition(state): "tools" when the last message carries tool calls,
\* "__end__" otherwise.
tools_condition(messages) ==
    IF Len(Last(messages).tool_calls) > 0 THEN "tools" ELSE "__end__"

\* The loop state a route leads to.
LoopState(route) == IF route = "tools" THEN "TOOL_TURN" ELSE "DONE"

\* get_exchange_rate under one behaviour of the rate service: requests.get
\* and raise_for_status are inside the try (RequestException -> ValueError),
\* response.json() is after it.
get_exchange_rate(outcome) ==
    IF outcome \in {"network", "http_status"}
    THEN [raised |-> TRUE, value |-> None,
          exc |-> [type |-> "ValueError", msg |-> <<"Failed to retrieve exchange rate data">>]]
    ELSE IF outcome = "malformed"
    THEN [raised |-> TRUE, value |-> None,
          exc |-> [type |-> "JSONDecodeError", msg |-> <<"Expecting value">>]]
    ELSE [raised |-> FALSE, value |-> "{\"base\": \"USD\", \"rates\": {\"EUR\": 0.92}}",
          exc |-> NoExc]

\* What the tool message of a failed get_exchange_rate call says.
RateErrorContent(exc) ==
    IF exc.type = "ValueError"
    THEN "Error: ValueError('Failed to retrieve exchange rate data') Please fix your mistakes."
    ELSE "Error: JSONDecodeError('Expecting value') Please fix your mistakes."

UnknownToolContent == "Error: not a valid tool, try one of [get_exchange_rate]."

\* Variant of handle_tool_errors: tool exceptions are re-raised.
handle_tool_errors_off == FALSE

\* ToolNode(tools=[get_exchange_rate]) is built with its default
\* handle_tool_errors: an exception of a tool becomes the tool message.
handle_tool_errors == TRUE

\* Variant of run_one whose tool message does not carry the call's id.
run_one_uncorrelated(call, outcome) ==
    [raised |-> FALSE, exc |-> NoExc,
     msg |-> [role |-> "tool",
              content |-> IF call.name \in RegisteredTools /\ outcome = "ok"
                          THEN get_exchange_rate(outcome).value ELSE UnknownToolContent,
              tool_calls |-> <<>>, tool_call_id |-> NoId,
              status |-> IF call.name \in RegisteredTools /\ outcome = "ok"
                         THEN "success" ELSE "error",
              id |-> NoId]]

\* Variant of run_one that looks the tool up by name without validating the
\* name first: an unregistered name raises KeyError out of the node.
run_one_unknown_raises(call, outcome) ==
    IF call.name \notin RegisteredTools
    THEN [raised |-> TRUE, exc |-> [type |-> "KeyError", msg |-> <<call.name>>],
          msg |-> [role |-> "tool", content |-> "", tool_calls |-> <<>>,
                   tool_call_id |-> call.id, status |-> "error", id |-> NoId]]
    ELSE LET r == get_exchange_rate(outcome)
         IN  [raised |-> FALSE, exc |-> NoExc,
              msg |-> [role |-> "tool",
                       content |-> IF r.raised THEN RateErrorContent(r.exc) ELSE r.value,
                       tool_calls |-> <<>>, tool_call_id |-> call.id,
                       status |-> IF r.raised THEN "error" ELSE "success",
                       id |-> NoId]]

\* ToolNode's handling of one tool call: a tool message carrying the call's
\* id, or the tool's exception when tool errors are not handled.
run_one(call, outcome) ==
    IF call.name \notin RegisteredTools
    THEN [raised |-> FALSE, exc |-> NoExc,
          msg |-> [role |-> "tool", content |-> UnknownToolContent,
                   tool_calls |-> <<>>, tool_call_id |-> call.id, status |-> "error",
                   id |-> NoId]]
    ELSE LET r == get_exchange_rate(outcome)
         IN  IF r.raised /\ ~handle_tool_errors
             THEN [raised |-> TRUE, exc |-> r.exc,
                   msg |-> [role |-> "tool", content |-> "", tool_calls |-> <<>>,
                            tool_call_id |-> call.id, status |-> "error", id |-> NoId]]
             ELSE [raised |-> FALSE, exc |-> NoExc,
                   msg |-> [role |-> "tool",
                            content |-> IF r.raised THEN RateErrorContent(r.exc) ELSE r.value,
                            tool_calls |-> <<>>, tool_call_id |-> call.id,
                            status |-> IF r.raised THEN "error" ELSE "success",
                            id |-> NoId]]

\* str(x) of a text
Str(x) == <<x>>

\* Variant of _last_message_content that reads the first message instead of
\* the last (messages[0]).
last_message_content_first(messages) ==
    IF messages = <<>> THEN Str("") ELSE Str(messages[1].content)

\* _last_message_content(messages)
last_message_content(messages) ==
    IF messages = <<>> THEN Str("") ELSE Str(Last(messages).content)

\* f"Error while processing request: {exc}"
ErrorText(exc) == <<ErrorPrefix>> \o exc.msg

(* ------------------------------ state ---------------------------------- *)

VARIABLES
    env,               \* the process environment after load_dotenv()
    tracer_available,  \* whether the import of AzureAIOpenTelemetryTracer succeeded
    proc,              \* "importing", "settings_loaded", "running" or "crashed"
    startup_error,     \* the exception that ended the import, NoExc if none
    azure_tracer,      \* whether the module-level azure_tracer is a tracer (not None)
    compiled_graph,    \* whether the module-level compiled_graph was built
    log,               \* levels of the records logged by _create_graph_executor
    inv,               \* the invocation being served by invoke
    twin,              \* reference copy of inv, fed the same payload and responses: in
                       \* a process whose tracing differs (Spec), served alone (SpecConc)
    inv2               \* another invocation, served concurrently on another thread

vars == <<env, tracer_available, proc, startup_error, azure_tracer, compiled_graph, log, inv,
          twin, inv2>>

\* No invocation in progress.
Idle ==
    [pc |-> "idle", payload |-> [session |-> "s1"], messages |-> <<>>, idc |-> 0,
     steps |-> 0, exc |-> NoExc, caught |-> 0, result |-> <<>>,
     model_calls |-> 0, tool_execs |-> 0, requests |-> 0, rate_failed |-> 0,
     tool_excs |-> {}, telemetry |-> "none"]

(* ------------------------ steps of one invocation ---------------------- *)

\* Variant of Entry for a conversation kept in one module-level list: the
\* seeds are added to what the list already holds.
Entry_shared(payload) ==
    LET user_message == PayloadGet(payload, "prompt", DefaultGreeting)
        formatted == format_messages(user_message)
    IN  [Idle EXCEPT !.pc = "ASSISTANT_TURN", !.payload = payload,
                     !.messages = add_messages(inv.messages, formatted, inv.idc),
                     !.idc = inv.idc + Len(formatted)]

\* invoke, lines 144-146 and the graph's input write: read the prompt, format
\* the two seed messages and hand them to the graph, whose reducer stores them.
Entry(payload) ==
    LET user_message == PayloadGet(payload, "prompt", DefaultGreeting)
        formatted == format_messages(user_message)
    IN  IF Convertible(formatted)
        THEN [Idle EXCEPT !.pc = "ASSISTANT_TURN", !.payload = payload,
                          !.messages = add_messages(<<>>, formatted, 0),
                          !.idc = Len(formatted)]
        ELSE [Idle EXCEPT !.pc = "raised", !.payload = payload, !.exc = ValidationError]

\* The tool calls of a response: the names the model asked for, each with an
\* id of its own.
MakeCalls(names, idc) == [i \in 1..Len(names) |-> [id |-> idc + i, name |-> names[i]]]

\* Variant of TracerRaises in which a callback that fails to record raises
\* into the run.
TracerRaises_on_failure(traced, recorded) == traced /\ ~recorded

\* What a tracer callback does to the run (invoke, lines 147-150: the tracer
\* is passed as a callback): an exception inside a callback handler is logged
\* by the callback manager and not re-raised.
TracerRaises(traced, recorded) == FALSE

Telemetry(st, traced, recorded) ==
    IF ~traced THEN st.telemetry
    ELSE IF recorded THEN "recorded" ELSE "dropped"

\* Variant of call_model that calls the model again after a failed call.
call_model_retrying(st, resp, traced, recorded) ==
    IF resp.kind = "fail"
    THEN [st EXCEPT !.model_calls = @ + 1]
    ELSE LET response == [role |-> "assistant", content |-> resp.content,
                          tool_calls |-> MakeCalls(resp.calls, st.idc + 1),
                          tool_call_id |-> NoId, status |-> "", id |-> st.idc + 1]
             messages == add_messages(st.messages, <<response>>, st.idc)
         IN  [st EXCEPT !.messages = messages,
                        !.idc = @ + 1 + Len(resp.calls),
                        !.pc = LoopState(tools_condition(messages)),
                        !.steps = @ + 1,
                        !.model_calls = @ + 1]

\* The "assistant" node (call_model) followed by its conditional edge
\* (tools_condition): one model call; its failure leaves the graph as an
\* exception, its response is appended and routes to TOOL_TURN or DONE.
call_model(st, resp, traced, recorded) ==
    IF TracerRaises(traced, recorded)
    THEN [st EXCEPT !.pc = "raised", !.steps = @ + 1,
                    !.exc = [type |-> "TracerError", msg |-> <<"tracer failed">>],
                    !.telemetry = "dropped"]
    ELSE IF resp.kind = "fail"
    THEN [st EXCEPT !.pc = "raised", !.exc = resp.exc, !.steps = @ + 1,
                    !.model_calls = @ + 1,
                    !.telemetry = Telemetry(st, traced, recorded)]
    ELSE LET response == [role |-> "assistant", content |-> resp.content,
                          tool_calls |-> MakeCalls(resp.calls, st.idc + 1),
                          tool_call_id |-> NoId, status |-> "", id |-> st.idc + 1]
             messages == add_messages(st.messages, <<response>>, st.idc)
         IN  [st EXCEPT !.messages = messages,
                        !.idc = @ + 1 + Len(resp.calls),
                        !.pc = LoopState(tools_condition(messages)),
                        !.steps = @ + 1,
                        !.model_calls = @ + 1,
                        !.telemetry = Telemetry(st, traced, recorded)]

\* Variant of tool_node that adds the tool messages in reverse order.
tool_node_reversed(st, outcomes, traced, recorded) ==
    LET calls == Last(st.messages).tool_calls
        n == Len(calls)
        outputs == [i \in 1..n |-> run_one(calls[n + 1 - i], outcomes[n + 1 - i]).msg]
    IN  [st EXCEPT !.messages = add_messages(st.messages, outputs, st.idc),
                   !.idc = @ + n,
                   !.pc = "ASSISTANT_TURN",
                   !.steps = @ + 1,
                   !.tool_execs = @ + n,
                   !.telemetry = Telemetry(st, traced, recorded)]

\* Variant of tool_node whose tool sends a failed request to the rate service
\* a second time before giving up.
tool_node_retry_once(st, outcomes, traced, recorded) ==
    LET calls == Last(st.messages).tool_calls
        runs == [i \in 1..Len(calls) |-> run_one(calls[i], outcomes[i])]
        outputs == [i \in 1..Len(calls) |-> runs[i].msg]
        ran == {i \in 1..Len(calls) : calls[i].name \in RegisteredTools}
        failed == {i \in ran : outcomes[i] # "ok"}
        raising == {i \in 1..Len(calls) : runs[i].raised}
        counted == [st EXCEPT !.steps = @ + 1,
                              !.telemetry = Telemetry(st, traced, recorded),
                              !.tool_execs = @ + Len(calls),
                              !.requests = @ + Cardinality(ran) + Cardinality(failed),
                              !.rate_failed = @ + Cardinality(failed),
                              !.tool_excs = @ \cup {get_exchange_rate(outcomes[i]).exc : i \in failed}]
    IN  IF TracerRaises(traced, recorded)
        THEN [st EXCEPT !.pc = "raised", !.steps = @ + 1,
                        !.exc = [type |-> "TracerError", msg |-> <<"tracer failed">>],
                        !.telemetry = "dropped"]
        ELSE IF raising # {}
        THEN [counted EXCEPT !.pc = "raised",
                             !.exc = runs[CHOOSE i \in raising : \A j \in raising : i <= j].exc]
        ELSE [counted EXCEPT !.messages = add_messages(st.messages, outputs, st.idc),
                             !.idc = @ + Len(outputs),
                             !.pc = "ASSISTANT_TURN"]

\* The "tools" node (ToolNode) followed by its edge back to "assistant": every
\* tool call of the last message is run, in order, and its tool message added.
tool_node(st, outcomes, traced, recorded) ==
    LET calls == Last(st.messages).tool_calls
        runs == [i \in 1..Len(calls) |-> run_one(calls[i], outcomes[i])]
        outputs == [i \in 1..Len(calls) |-> runs[i].msg]
        ran == {i \in 1..Len(calls) : calls[i].name \in RegisteredTools}
        failed == {i \in ran : outcomes[i] # "ok"}
        raising == {i \in 1..Len(calls) : runs[i].raised}
        counted == [st EXCEPT !.steps = @ + 1,
                              !.telemetry = Telemetry(st, traced, recorded),
                              !.tool_execs = @ + Len(calls),
                              !.requests = @ + Cardinality(ran),
                              !.rate_failed = @ + Cardinality(failed),
                              !.tool_excs = @ \cup {get_exchange_rate(outcomes[i]).exc : i \in failed}]
    IN  IF TracerRaises(traced, recorded)
        THEN [st EXCEPT !.pc = "raised", !.steps = @ + 1,
                        !.exc = [type |-> "TracerError", msg |-> <<"tracer failed">>],
                        !.telemetry = "dropped"]
        ELSE IF raising # {}
        THEN [counted EXCEPT !.pc = "raised",
                             !.exc = runs[CHOOSE i \in raising : \A j \in raising : i <= j].exc]
        ELSE [counted EXCEPT !.messages = add_messages(st.messages, outputs, st.idc),
                             !.idc = @ + Len(outputs),
                             !.pc = "ASSISTANT_TURN"]

\* Variant of WithinLimit for a graph run under a recursion limit of 5.
WithinLimit_low(st) == st.steps < 5

\* Whether the graph may run another super-step.
WithinLimit(st) == st.steps < RecursionLimit

\* The graph runs out of super-steps before reaching its end.
out_of_steps(st) == [st EXCEPT !.pc = "raised", !.exc = GraphRecursionError]

\* Variant of Return without the except clause: an exception of the graph run
\* leaves invoke.
Return_without_except(st) ==
    IF st.pc = "raised"
    THEN [st EXCEPT !.pc = "escaped"]
    ELSE [st EXCEPT !.pc = "returned", !.result = last_message_content(st.messages)]

\* invoke, lines 151-154: the answer is the last message's content, or the
\* error text when anything raised inside the try; the mapping is returned.
Return(st) ==
    IF st.pc = "raised"
    THEN [st EXCEPT !.pc = "returned", !.caught = @ + 1, !.result = ErrorText(st.exc)]
    ELSE [st EXCEPT !.pc = "returned", !.result = last_message_content(st.messages)]

\* The responses the model gives in this turn.
ModelResponses(st) ==
    IF st.model_calls < MaxVaried THEN VariedResponses ELSE CanonicalResponses

\* The behaviours of the rate service during this tool turn, one per call.
ToolOutcomes(st) ==
    LET n == Len(Last(st.messages).tool_calls)
    IN  IF st.model_calls <= MaxVaried THEN [1..n -> RateOutcomes]
        ELSE [1..n -> {"ok"}]

(* ------------------------------ start-up ------------------------------- *)

Init ==
    /\ env \in [EnvKeys -> EnvValues]
    /\ tracer_available \in BOOLEAN
    /\ proc = "importing"
    /\ startup_error = NoExc
    /\ azure_tracer = FALSE
    /\ compiled_graph = FALSE
    /\ log = <<>>
    /\ inv = Idle
    /\ twin = Idle
    /\ inv2 = Idle

\* Lines 40-45: the five required settings are read in order; the first one
\* missing ends the import with RuntimeError.
LoadSettings ==
    /\ proc = "importing"
    /\ LET i == FirstMissing(env)
       IN  IF i = 0
           THEN /\ proc' = "settings_loaded"
                /\ UNCHANGED startup_error
           ELSE /\ proc' = "crashed"
                /\ startup_error' = require_env(env, RequiredKeys[i]).exc
    /\ UNCHANGED <<env, tracer_available, azure_tracer, compiled_graph, log, inv, twin, inv2>>

\* Line 137, _create_graph_executor: the tracer is constructed only when its
\* class was imported and the connection string is set; the constructor call
\* is not guarded. Then the graph is built.
CreateGraphExecutor ==
    /\ proc = "settings_loaded"
    /\ IF ~tracer_available
       THEN /\ log' = Append(log, "warning")
            /\ azure_tracer' = FALSE
            /\ compiled_graph' = TRUE
            /\ proc' = "running"
            /\ UNCHANGED startup_error
       ELSE IF ~Truthy(getenv(env, ConnKey))
       THEN /\ log' = Append(log, "info")
            /\ azure_tracer' = FALSE
            /\ compiled_graph' = TRUE
            /\ proc' = "running"
            /\ UNCHANGED startup_error
       ELSE \E constructed \in BOOLEAN :
              IF constructed
              THEN /\ azure_tracer' = TRUE
                   /\ compiled_graph' = TRUE
                   /\ proc' = "running"
                   /\ UNCHANGED <<startup_error, log>>
              ELSE /\ proc' = "crashed"
                   /\ startup_error' = [type |-> "TracerInitError",
                                        msg |-> <<"tracer could not be initialised">>]
                   /\ UNCHANGED <<azure_tracer, compiled_graph, log>>
    /\ UNCHANGED <<env, tracer_available, inv, twin, inv2>>

(* ----------------------------- invocation ------------------------------ *)

Busy == inv.pc \in {"ASSISTANT_TURN", "TOOL_TURN", "DONE", "raised"}

\* The entry point is called with a payload.
Invoke ==
    /\ proc = "running"
    /\ ~Busy
    /\ \E payload \in Payloads :
          /\ inv' = Entry(payload)
          /\ twin' = Entry(payload)
    /\ UNCHANGED <<env, tracer_available, proc, startup_error, azure_tracer, compiled_graph, log,
                   inv2>>

AssistantTurn ==
    /\ inv.pc = "ASSISTANT_TURN"
    /\ WithinLimit(inv)
    /\ \E resp \in ModelResponses(inv), recorded \in BOOLEAN, twin_recorded \in BOOLEAN :
          /\ inv' = call_model(inv, resp, azure_tracer, recorded)
          /\ twin' = IF twin.pc = "ASSISTANT_TURN" /\ WithinLimit(twin)
                     THEN call_model(twin, resp, ~azure_tracer, twin_recorded)
                     ELSE twin
    /\ UNCHANGED <<env, tracer_available, proc, startup_error, azure_tracer, compiled_graph, log,
                   inv2>>

ToolTurn ==
    /\ inv.pc = "TOOL_TURN"
    /\ WithinLimit(inv)
    /\ \E outcomes \in ToolOutcomes(inv), recorded \in BOOLEAN, twin_recorded \in BOOLEAN :
          /\ inv' = tool_node(inv, outcomes, azure_tracer, recorded)
          /\ twin' = IF twin.pc = "TOOL_TURN" /\ WithinLimit(twin)
                        /\ Len(Last(twin.messages).tool_calls) = Len(outcomes)
                     THEN tool_node(twin, outcomes, ~azure_tracer, twin_recorded)
                     ELSE twin
    /\ UNCHANGED <<env, tracer_available, proc, startup_error, azure_tracer, compiled_graph, log,
                   inv2>>

RecursionLimitReached ==
    /\ inv.pc \in {"ASSISTANT_TURN", "TOOL_TURN"}
    /\ ~WithinLimit(inv)
    /\ inv' = out_of_steps(inv)
    /\ twin' = IF twin.pc \in {"ASSISTANT_TURN", "TOOL_TURN"} /\ ~WithinLimit(twin)
               THEN out_of_steps(twin) ELSE twin
    /\ UNCHANGED <<env, tracer_available, proc, startup_error, azure_tracer, compiled_graph, log,
                   inv2>>

InvokeReturn ==
    /\ inv.pc \in {"DONE", "raised"}
    /\ inv' = Return(inv)
    /\ twin' = IF twin.pc \in {"DONE", "raised"} THEN Return(twin) ELSE twin
    /\ UNCHANGED <<env, tracer_available, proc, startup_error, azure_tracer, compiled_graph, log,
                   inv2>>

Next ==
    \/ LoadSettings
    \/ CreateGraphExecutor
    \/ Invoke
    \/ AssistantTurn
    \/ ToolTurn
    \/ RecursionLimitReached
    \/ InvokeReturn

Spec == Init /\ [][Next]_vars

(* ----------------------- concurrent invocations ------------------------ *)

\* Payloads of the first caller.
Payloads1 == {[session |-> "s1"], [session |-> "s1", prompt |-> "Hello"]}

\* Payloads of the second caller.
Payloads2 == {[session |-> "s2", prompt |-> "Convert 100 USD to JPY"],
              [session |-> "s2", prompt |-> "Hi"]}

\* The responses the model gives an invocation in this turn.
ConcResponses(st) ==
    IF st.model_calls < MaxConcRounds
    THEN CanonicalResponses \cup
         {[kind |-> "msg", exc |-> NoExc, content |-> "",
           calls |-> <<"get_exchange_rate", "convert_currency">>]}
    ELSE {r \in CanonicalResponses : Len(r.calls) = 0}

\* The behaviours of the rate service during a tool turn, one per call.
ConcOutcomes(st) == [1..Len(Last(st.messages).tool_calls) -> {"ok", "network"}]

InProgress(st) == st.pc \in {"ASSISTANT_TURN", "TOOL_TURN", "DONE", "raised"}

\* invoke is entered on one thread ...
ConcInvoke1 ==
    /\ proc = "running"
    /\ ~InProgress(inv)
    /\ \E payload \in Payloads1 :
          /\ inv' = Entry(payload)
          /\ twin' = Entry(payload)
    /\ UNCHANGED <<env, tracer_available, proc, startup_error, azure_tracer, compiled_graph, log,
                   inv2>>

\* ... and on another.
ConcInvoke2 ==
    /\ proc = "running"
    /\ ~InProgress(inv2)
    /\ \E payload \in Payloads2 : inv2' = Entry(payload)
    /\ UNCHANGED <<env, tracer_available, proc, startup_error, azure_tracer, compiled_graph, log,
                   inv, twin>>

ConcAssistantTurn1 ==
    /\ inv.pc = "ASSISTANT_TURN"
    /\ WithinLimit(inv)
    /\ \E resp \in ConcResponses(inv), recorded \in BOOLEAN :
          /\ inv' = call_model(inv, resp, azure_tracer, recorded)
          /\ twin' = IF twin.pc = "ASSISTANT_TURN" /\ WithinLimit(twin)
                     THEN call_model(twin, resp, azure_tracer, recorded)
                     ELSE twin
    /\ UNCHANGED <<env, tracer_available, proc, startup_error, azure_tracer, compiled_graph, log,
                   inv2>>

ConcAssistantTurn2 ==
    /\ inv2.pc = "ASSISTANT_TURN"
    /\ WithinLimit(inv2)
    /\ \E resp \in ConcResponses(inv2), recorded \in BOOLEAN :
          inv2' = call_model(inv2, resp, azure_tracer, recorded)
    /\ UNCHANGED <<env, tracer_available, proc, startup_error, azure_tracer, compiled_graph, log,
                   inv, twin>>

ConcToolTurn1 ==
    /\ inv.pc = "TOOL_TURN"
    /\ WithinLimit(inv)
    /\ \E outcomes \in ConcOutcomes(inv), recorded \in BOOLEAN :
          /\ inv' = tool_node(inv, outcomes, azure_tracer, recorded)
          /\ twin' = IF twin.pc = "TOOL_TURN" /\ WithinLimit(twin)
                        /\ Len(Last(twin.messages).tool_calls) = Len(outcomes)
                     THEN tool_node(twin, outcomes, azure_tracer, recorded)
                     ELSE twin
    /\ UNCHANGED <<env, tracer_available, proc, startup_error, azure_tracer, compiled_graph, log,
                   inv2>>

ConcToolTurn2 ==
    /\ inv2.pc = "TOOL_TURN"
    /\ WithinLimit(inv2)
    /\ \E outcomes \in ConcOutcomes(inv2), recorded \in BOOLEAN :
          inv2' = tool_node(inv2, outcomes, azure_tracer, recorded)
    /\ UNCHANGED <<env, tracer_available, proc, startup_error, azure_tracer, compiled_graph, log,
                   inv, twin>>

ConcReturn1 ==
    /\ inv.pc \in {"DONE", "raised"}
    /\ inv' = Return(inv)
    /\ twin' = IF twin.pc \in {"DONE", "raised"} THEN Return(twin) ELSE twin
    /\ UNCHANGED <<env, tracer_available, proc, startup_error, azure_tracer, compiled_graph, log,
                   inv2>>

ConcReturn2 ==
    /\ inv2.pc \in {"DONE", "raised"}
    /\ inv2' = Return(inv2)
    /\ UNCHANGED <<env, tracer_available, proc, startup_error, azure_tracer, compiled_graph, log,
                   inv, twin>>

NextConc ==
    \/ LoadSettings
    \/ CreateGraphExecutor
    \/ ConcInvoke1
    \/ ConcInvoke2
    \/ ConcAssistantTurn1
    \/ ConcAssistantTurn2
    \/ ConcToolTurn1
    \/ ConcToolTurn2
    \/ ConcReturn1
    \/ ConcReturn2

\* A process whose required settings are all set and whose tracing
\* dependency is installed, before its import.
InitConc ==
    /\ env \in {e \in [EnvKeys -> {None, "set"}] : \A k \in EnvKeys \ {ConnKey} : e[k] = "set"}
    /\ tracer_available = TRUE
    /\ proc = "importing"
    /\ startup_error = NoExc
    /\ azure_tracer = FALSE
    /\ compiled_graph = FALSE
    /\ log = <<>>
    /\ inv = Idle
    /\ twin = Idle
    /\ inv2 = Idle

\* The process serving two callers at once, each invocation on its own thread.
SpecConc == InitConc /\ [][NextConc]_vars

(* --------------------------- claim helpers ----------------------------- *)

Roles(ms) == [i \in 1..Len(ms) |-> ms[i].role]

IsToolRequest(m) == m.role = "assistant" /\ Len(m.tool_calls) > 0

IsTerminalAnswer(m) == m.role = "assistant" /\ Len(m.tool_calls) = 0

\* Number of tool-requesting assistant turns taken so far.
ToolRounds(ms) == Cardinality({k \in 1..Len(ms) : IsToolRequest(ms[k])})

\* The user message the payload asks for.
ExpectedUserMessage(payload) ==
    IF "prompt" \in DOMAIN payload THEN payload.prompt ELSE "Hello! How can I help you today?"

MissingRequired == {k \in EnvKeys \ {ConnKey} : env[k] \in {None, ""}}

(* ------------------------------- C1 ------------------------------------ *)

C2_LoopTransitions ==
    [][ /\ (inv.pc \in {"idle", "returned"} /\ inv'.pc \notin {"idle", "returned"}) =>
              /\ inv'.pc \in {"ASSISTANT_TURN", "raised"}
              /\ inv'.pc = "ASSISTANT_TURN" => Roles(inv'.messages) = <<"system", "user">>
        /\ (inv.pc = "ASSISTANT_TURN" /\ Len(inv'.messages) = Len(inv.messages) + 1) =>
              /\ Last(inv'.messages).role = "assistant"
              /\ (inv'.pc = "DONE") <=> (Len(Last(inv'.messages).tool_calls) = 0)
              /\ (inv'.pc = "TOOL_TURN") <=> (Len(Last(inv'.messages).tool_calls) > 0)
        /\ (inv.pc = "TOOL_TURN" /\ inv'.tool_execs > inv.tool_execs) =>
              inv'.pc = "ASSISTANT_TURN"
        /\ inv.pc = "TOOL_TURN" => inv'.pc # "DONE"
        /\ inv'.pc = "DONE" => inv.pc \in {"ASSISTANT_TURN", "DONE"}
      ]_vars

C2_Witness ==
    /\ inv.pc = "DONE"
    /\ Roles(inv.messages) = <<"system", "user", "assistant", "tool", "tool", "assistant">>

(* ------------------------------- C3 ------------------------------------ *)

\* Tool-requesting turns the graph is sure to get through before its
\* recursion limit can end the run.
SafeRounds == (RecursionLimit - 3) \div 2

\* C3 as stated: the loop has no bound on its iterations, so the only things
\* that end a run other than DONE are a failing model call or rejected input.
C3_NoIterationBound ==
    inv.pc = "raised" => inv.exc \in ModelFailures \cup {ValidationError}

\* C3 amended: up to SafeRounds (11) tool-requesting turns the loop always
\* takes the next model turn, and a terminal answer ends it in DONE with that
\* answer returned; the graph's recursion limit ends a run only after more
\* tool-requesting turns than that.
C3_BoundedByRecursionLimit ==
    /\ inv.exc = GraphRecursionError => ToolRounds(inv.messages) > SafeRounds
    /\ (inv.pc = "ASSISTANT_TURN" /\ ToolRounds(inv.messages) <= SafeRounds) =>
          ENABLED (AssistantTurn /\ inv'.pc = "DONE")
    /\ inv.pc = "DONE" => IsTerminalAnswer(Last(inv.messages))
    /\ (inv.pc = "returned" /\ inv.exc = NoExc) =>
          /\ IsTerminalAnswer(Last(inv.messages))
          /\ inv.result = <<Last(inv.messages).content>>

C3_Witness ==
    /\ inv.pc = "returned"
    /\ inv.exc = NoExc
    /\ ToolRounds(inv.messages) = SafeRounds
    /\ inv.result = <<"The rate is 0.92">>

(* ------------------------------- C4 ------------------------------------ *)

\* The tool-requesting assistant message at position k is answered: it is
\* followed by one tool message per tool call, the i-th carrying the i-th
\* call's id, and by no further tool message.
Answered(ms, k) ==
    LET calls == ms[k].tool_calls
        n == Len(calls)
    IN  /\ k + n <= Len(ms)
        /\ \A i \in 1..n : ms[k + i].role = "tool" /\ ms[k + i].tool_call_id = calls[i].id
        /\ \A i, j \in 1..n : calls[i].id = calls[j].id => i = j
        /\ k + n < Len(ms) => ms[k + n + 1].role # "tool"

\* C4: in every conversation state the loop produces (at each ASSISTANT_TURN
\* and at DONE, and for all but a still pending last message in between),
\* every tool-requesting assistant message is answered, and every tool
\* message belongs to such an answer.
C4_ToolResultsMatchCalls ==
    /\ \A k \in 1..Len(inv.messages) :
          IsToolRequest(inv.messages[k]) =>
             \/ Answered(inv.messages, k)
             \/ k = Len(inv.messages) /\ inv.pc \in {"TOOL_TURN", "raised", "returned"}
    /\ inv.pc \in {"ASSISTANT_TURN", "DONE"} =>
          \A k \in 1..Len(inv.messages) :
             IsToolRequest(inv.messages[k]) => Answered(inv.messages, k)
    /\ \A j \in 1..Len(inv.messages) :
          inv.messages[j].role = "tool" =>
             \E k \in 1..(j - 1) :
                /\ IsToolRequest(inv.messages[k])
                /\ j - k <= Len(inv.messages[k].tool_calls)

C4_Witness ==
    /\ inv.pc = "ASSISTANT_TURN"
    /\ Len(inv.messages) = 5
    /\ Len(inv.messages[3].tool_calls) = 2
    /\ inv.messages[4].tool_call_id = inv.messages[3].tool_calls[1].id
    /\ inv.messages[5].tool_call_id = inv.messages[3].tool_calls[2].id
    /\ inv.messages[4].content # inv.messages[5].content

(* ------------------------------- C5 ------------------------------------ *)

RateErrorContents ==
    {RateErrorContent(get_exchange_rate(o).exc) : o \in RateOutcomes \ {"ok"}}

\* C5: a failing rate-service call (network error, bad status, malformed
\* body) never ends the graph run: each such failure is the content of a
\* tool-result message in the conversation, and when the model's next answer
\* is terminal invoke returns that answer, not an error text.
C5_RateFailureIsNotFatal ==
    /\ inv.exc.type \notin {"ValueError", "JSONDecodeError"}
    /\ Cardinality({j \in 1..Len(inv.messages) :
                       /\ inv.messages[j].role = "tool"
                       /\ inv.messages[j].status = "error"
                       /\ inv.messages[j].content \in RateErrorContents}) = inv.rate_failed
    /\ (inv.pc = "returned" /\ inv.rate_failed > 0 /\ IsTerminalAnswer(Last(inv.messages))) =>
          /\ inv.exc = NoExc
          /\ inv.caught = 0
          /\ inv.result = <<Last(inv.messages).content>>

C5_Witness ==
    /\ inv.pc = "returned"
    /\ inv.rate_failed = 1
    /\ Roles(inv.messages) = <<"system", "user", "assistant", "tool", "assistant">>
    /\ inv.messages[4].content = "Error: JSONDecodeError('Expecting value') Please fix your mistakes."
    /\ inv.result = <<"The rate is 0.92">>

(* ------------------------------- C6 ------------------------------------ *)

\* C6: a failing model call leaves the loop as an exception; the next step of
\* the invocation is invoke's handler, which catches it (once), builds the
\* error text and returns, with no model call, tool call or message added;
\* after the return only a new invocation, starting from nothing, follows.
C6_ModelFailureEndsInvocation ==
    [][ /\ (/\ inv.pc = "ASSISTANT_TURN"
            /\ inv'.model_calls = inv.model_calls + 1
            /\ inv'.messages = inv.messages) =>
              /\ inv'.pc = "raised"
              /\ inv'.exc \in ModelFailures
              /\ inv'.caught = 0
        /\ inv.pc = "raised" =>
              /\ inv'.pc = "returned"
              /\ inv'.caught = 1
              /\ inv'.result = <<"Error while processing request: ">> \o inv.exc.msg
              /\ inv'.model_calls = inv.model_calls
              /\ inv'.tool_execs = inv.tool_execs
              /\ inv'.requests = inv.requests
              /\ inv'.messages = inv.messages
        /\ (inv.pc = "returned" /\ inv' # inv) =>
              /\ inv'.model_calls = 0
              /\ inv'.tool_execs = 0
              /\ inv'.caught = 0
              /\ Len(inv'.messages) <= 2
      ]_vars

C6_Witness ==
    /\ inv.pc = "returned"
    /\ inv.exc \in ModelFailures
    /\ inv.model_calls = 2
    /\ inv.tool_execs = 1
    /\ inv.caught = 1

(* ------------------------------- C7 ------------------------------------ *)

\* C7: the conversation is seeded with exactly [system prompt, user message],
\* the user message being the payload's prompt when it has one and the fixed
\* default greeting when it has none; the two stay the first two messages.
C7_SeededMessages ==
    /\ inv.messages # <<>> =>
          /\ Len(inv.messages) >= 2
          /\ inv.messages[1].role = "system"
          /\ inv.messages[1].content =
                "You help users understand currency exchange rates and related context."
          /\ inv.messages[2].role = "user"
          /\ inv.messages[2].content = ExpectedUserMessage(inv.payload)
    /\ (inv.pc = "ASSISTANT_TURN" /\ inv.steps = 0) => Len(inv.messages) = 2

C7_Witness ==
    /\ inv.pc = "ASSISTANT_TURN"
    /\ inv.steps = 0
    /\ "prompt" \notin DOMAIN inv.payload
    /\ inv.messages[2].content = "Hello! How can I help you today?"

(* ------------------------------- C8 ------------------------------------ *)

\* C8: an invocation the model answers directly ends with exactly
\* [system, user, assistant] and returns the assistant's content; one with a
\* single tool call and then an answer ends with exactly
\* [system, user, assistant(tool call), tool(result), assistant(final)].
C8_ScenarioShapes ==
    /\ (inv.pc \in {"DONE", "returned"} /\ inv.exc = NoExc /\ inv.model_calls = 1) =>
          /\ Roles(inv.messages) = <<"system", "user", "assistant">>
          /\ inv.pc = "returned" => inv.result = <<inv.messages[3].content>>
    /\ (/\ inv.pc \in {"DONE", "returned"}
        /\ inv.exc = NoExc
        /\ inv.model_calls = 2
        /\ inv.tool_execs = 1) =>
          /\ Roles(inv.messages) = <<"system", "user", "assistant", "tool", "assistant">>
          /\ Len(inv.messages[3].tool_calls) = 1
          /\ inv.messages[4].tool_call_id = inv.messages[3].tool_calls[1].id
          /\ IsTerminalAnswer(inv.messages[5])
          /\ inv.pc = "returned" => inv.result = <<inv.messages[5].content>>

C8_Witness ==
    /\ inv.pc = "returned"
    /\ inv.payload = [session |-> "s1", prompt |-> "What is the USD to EUR rate today?"]
    /\ Len(inv.messages) = 5
    /\ inv.messages[4].status = "success"
    /\ inv.result = <<"The rate is 0.92">>

(* ------------------------------- C9 ------------------------------------ *)

\* C9: with a required setting missing (unset or empty) the import ends with
\* a RuntimeError naming a missing setting, no graph is built and no
\* invocation is ever served; with all five present and only the tracing
\* connection string missing, start-up completes with the graph built.
C9_RequiredSettings ==
    /\ (MissingRequired # {} /\ proc # "importing") =>
          /\ proc = "crashed"
          /\ startup_error.type = "RuntimeError"
          /\ startup_error.msg[2] \in MissingRequired
          /\ ~compiled_graph
    /\ proc # "running" => inv.pc = "idle"
    /\ (/\ MissingRequired = {}
        /\ env[ConnKey] \in {None, ""}
        /\ proc \notin {"importing", "settings_loaded"}) =>
          /\ proc = "running"
          /\ compiled_graph
          /\ startup_error = NoExc

C9_Witness ==
    /\ proc = "crashed"
    /\ env["AWS_REGION"] = "set"
    /\ env["BEDROCK_MODEL_ID"] = None
    /\ startup_error.msg[2] = "BEDROCK_MODEL_ID"

(* ------------------------------- C10 ----------------------------------- *)

LastAssistant(ms) ==
    CHOOSE k \in 1..Len(ms) :
       /\ ms[k].role = "assistant"
       /\ \A j \in (k + 1)..Len(ms) : ms[j].role # "assistant"

\* C11: whenever the loop is about to take a model turn other than the first,
\* every tool call of the most recent assistant message is resolved: exactly
\* one tool-result message after it carries that call's id.
C11_NoModelTurnWithUnresolvedCalls ==
    (inv.pc = "ASSISTANT_TURN" /\ inv.steps > 0) =>
       LET k == LastAssistant(inv.messages)
           calls == inv.messages[k].tool_calls
       IN  /\ Len(calls) > 0
           /\ \A i \in 1..Len(calls) :
                 Cardinality({j \in (k + 1)..Len(inv.messages) :
                                 /\ inv.messages[j].role = "tool"
                                 /\ inv.messages[j].tool_call_id = calls[i].id}) = 1

C11_Witness ==
    /\ inv.pc = "ASSISTANT_TURN"
    /\ inv.steps = 4
    /\ Roles(inv.messages) = <<"system", "user", "assistant", "tool", "tool", "assistant", "tool">>

(* ------------------------------- C12 ----------------------------------- *)

\* C12: within an invocation every step keeps the stored messages, unchanged
\* and in place, as a prefix of the new conversation; an assistant turn adds
\* exactly one assistant message at the end, a tool turn exactly one tool
\* message per tool call, and no other step adds any.
C12_AppendOnly ==
    [][ inv.pc \in {"ASSISTANT_TURN", "TOOL_TURN", "DONE", "raised"} =>
          /\ Len(inv'.messages) >= Len(inv.messages)
          /\ SubSeq(inv'.messages, 1, Len(inv.messages)) = inv.messages
          /\ (inv.pc = "ASSISTANT_TURN" /\ inv'.pc \in {"DONE", "TOOL_TURN"}) =>
                /\ Len(inv'.messages) = Len(inv.messages) + 1
                /\ Last(inv'.messages).role = "assistant"
          /\ (inv.pc = "TOOL_TURN" /\ inv'.pc = "ASSISTANT_TURN") =>
                /\ Len(inv'.messages) = Len(inv.messages) + Len(Last(inv.messages).tool_calls)
                /\ \A j \in (Len(inv.messages) + 1)..Len(inv'.messages) :
                      inv'.messages[j].role = "tool"
          /\ inv'.pc \in {"raised", "returned"} => inv'.messages = inv.messages
      ]_vars

C12_Witness ==
    /\ inv.pc = "DONE"
    /\ Len(inv.messages) = 6
    /\ \A i, j \in 1..Len(inv.messages) : inv.messages[i].id = inv.messages[j].id => i = j

(* ------------------------------- C13 ----------------------------------- *)

\* The single failure kind of the tool: ValueError("Failed to retrieve
\* exchange rate data"), raised from the underlying request exception.
RateLookupFailed ==
    [type |-> "ValueError", msg |-> <<"Failed to retrieve exchange rate data">>]

\* C13: every failure of the lookup (network error, non-success status,
\* malformed body) leaves get_exchange_rate as the single normalized failure
\* kind, never as another error.
C13_LookupFailuresNormalized ==
    \A e \in inv.tool_excs : e = RateLookupFailed

(* ------------------------------- C14 ----------------------------------- *)

\* C14: with the tracing dependency available and a connection string set,
\* start-up always completes, whether or not the tracer can be initialised:
\* the graph is built and the process serves invocations, without a tracer
\* and with a warning logged when the initialisation failed.
C14_TracerInitFailureIsNotFatal ==
    (/\ tracer_available
     /\ env[ConnKey] \notin {None, ""}
     /\ MissingRequired = {}
     /\ proc \notin {"importing", "settings_loaded"}) =>
       /\ proc = "running"
       /\ compiled_graph
       /\ ~azure_tracer => \E i \in 1..Len(log) : log[i] = "warning"

(* ------------------------------- C15 ----------------------------------- *)

CountRole(ms, role) == Cardinality({k \in 1..Len(ms) : ms[k].role = role})

\* The conversation of st holds what st's own invocation put there and
\* nothing else: its own two seeds, one assistant message per model call of
\* its own that succeeded, one tool message per tool call it dispatched.
OwnMessagesOnly(st) ==
    st.messages # <<>> =>
       /\ {k \in 1..Len(st.messages) : st.messages[k].role = "system"} = {1}
       /\ {k \in 1..Len(st.messages) : st.messages[k].role = "user"} = {2}
       /\ st.messages[2].content = ExpectedUserMessage(st.payload)
       /\ CountRole(st.messages, "assistant") =
             st.model_calls - (IF st.exc \in ModelFailures THEN 1 ELSE 0)
       /\ CountRole(st.messages, "tool") = st.tool_execs
       /\ \A i, j \in 1..Len(st.messages) : st.messages[i].id = st.messages[j].id => i = j

\* C15: under every interleaving of two invocations each one starts from a
\* fresh conversation of its own two seeds, its conversation never holds a
\* message of the other, and its conversation and result are those of the
\* same invocation served alone.
C15_InvocationsAreIsolated ==
    /\ OwnMessagesOnly(inv)
    /\ OwnMessagesOnly(inv2)
    /\ (inv.pc = "ASSISTANT_TURN" /\ inv.steps = 0) => Len(inv.messages) = 2
    /\ (inv2.pc = "ASSISTANT_TURN" /\ inv2.steps = 0) => Len(inv2.messages) = 2
    /\ inv.pc = twin.pc
    /\ inv.messages = twin.messages
    /\ inv.result = twin.result

C15_Witness ==
    /\ inv.pc = "DONE"
    /\ Len(inv.messages) = 5
    /\ inv2.pc = "ASSISTANT_TURN"
    /\ Len(inv2.messages) = 5
    /\ inv.messages[2].content # inv2.messages[2].content


(* ------------------------------- C16 ----------------------------------- *)

\* C16: whenever the loop is at DONE the last message of the conversation
\* state is the terminal assistant message (role assistant, no tool calls),
\* and the step that returns from DONE returns exactly that message's
\* content, the conversation state untouched.
C16_ResultIsTerminalAnswer ==
    [][inv.pc = "DONE" =>
          /\ inv.messages # <<>>
          /\ IsTerminalAnswer(Last(inv.messages))
          /\ inv'.pc \in {"DONE", "returned"}
          /\ inv'.pc = "returned" =>
                 /\ inv'.result = Str(Last(inv.messages).content)
                 /\ inv'.messages = inv.messages
                 /\ inv'.caught = 0]_vars

C16_Witness ==
    /\ inv.pc = "returned"
    /\ inv.caught = 0
    /\ Roles(inv.messages) = <<"system", "user", "assistant", "tool", "tool", "assistant">>
    /\ Last(inv.messages).content = "The rate is 0.92"
    /\ inv.result = <<"The rate is 0.92">>
    /\ inv.messages[5].content # inv.result[1]


(* ------------------------------- C17 ----------------------------------- *)

\* C17: a tool turn whose calls include an unregistered tool name appends one
\* tool message per call, the one for the unregistered name carrying that
\* call's id, an error status and the unknown-tool text; the loop goes on to
\* ASSISTANT_TURN and no exception is raised.
C17_UnknownToolIsAnswered ==
    [][LET calls == Last(inv.messages).tool_calls
           n == Len(calls)
           base == Len(inv.messages)
       IN  (/\ inv.pc = "TOOL_TURN"
            /\ WithinLimit(inv)
            /\ inv' # inv
            /\ \E i \in 1..n : calls[i].name \notin RegisteredTools)
           => /\ inv'.pc = "ASSISTANT_TURN"
              /\ inv'.exc = NoExc
              /\ Len(inv'.messages) = base + n
              /\ \A k \in 1..base : inv'.messages[k] = inv.messages[k]
              /\ \A i \in 1..n :
                    calls[i].name \notin RegisteredTools =>
                       /\ inv'.messages[base + i].role = "tool"
                       /\ inv'.messages[base + i].tool_call_id = calls[i].id
                       /\ inv'.messages[base + i].status = "error"
                       /\ inv'.messages[base + i].content = UnknownToolContent]_vars

C17_Witness ==
    /\ inv.pc = "returned"
    /\ inv.caught = 0
    /\ Roles(inv.messages) = <<"system", "user", "assistant", "tool", "assistant">>
    /\ inv.messages[3].tool_calls[1].name = "convert_currency"
    /\ inv.messages[4].content = UnknownToolContent
    /\ inv.messages[4].tool_call_id = inv.messages[3].tool_calls[1].id
    /\ inv.requests = 0


(* ------------------------------- C18 ----------------------------------- *)

\* Ids of the tool calls that name the exchange-rate tool.
RateCallIds(ms) ==
    UNION {{ms[k].tool_calls[i].id :
               i \in {j \in 1..Len(ms[k].tool_calls) :
                         ms[k].tool_calls[j].name = "get_exchange_rate"}} :
           k \in {m \in 1..Len(ms) : ms[m].role = "assistant"}}

\* Positions of the results of the exchange-rate tool's executions.
Dispatched(ms) ==
    {k \in 1..Len(ms) : ms[k].role = "tool" /\ ms[k].tool_call_id \in RateCallIds(ms)}

\* Number of tool turns taken: tool requests that have been answered.
ToolTurnsTaken(ms) ==
    Cardinality({k \in 1..Len(ms) : IsToolRequest(ms[k]) /\ k < Len(ms)})

\* C18: nothing retries. Over an invocation the requests sent to the rate
\* service number the executions of the exchange-rate tool (failed or not,
\* each failed execution counted once), and the calls of the model number
\* the assistant turns entered (the graph steps that were not tool turns).
C18_NoRetries ==
    /\ inv.requests = Cardinality(Dispatched(inv.messages))
    /\ inv.rate_failed =
          Cardinality({k \in Dispatched(inv.messages) : inv.messages[k].status = "error"})
    /\ inv.rate_failed <= inv.requests
    /\ inv.model_calls = inv.steps - ToolTurnsTaken(inv.messages)
    /\ inv.model_calls = CountRole(inv.messages, "assistant")
                           + (IF inv.exc \in ModelFailures THEN 1 ELSE 0)

C18_Witness ==
    /\ inv.pc = "returned"
    /\ inv.model_calls = 3
    /\ inv.tool_execs = 3
    /\ inv.requests = 2
    /\ inv.rate_failed = 1

====
